---- MODULE Spec2Model ----
(***************************************************************************)
(* The tool-calling agent of local_llm/agent: ConversationHistory, Tool,   *)
(* ToolRegistry and the Agent loop (chat / _run_loop / _parse_tool_calls). *)
(*                                                                         *)
(* Text is modelled as a sequence of tokens: a token is one character      *)
(* (whitespace, a prose letter, a brace, a comma) or one JSON lexeme (a    *)
(* key with its colon, a string literal, null, an array literal).          *)
(* Tool results, which can be thousands of characters long, are modelled   *)
(* as a source text with the number of its leading characters kept.        *)
(***************************************************************************)
EXTENDS Integers, Sequences, FiniteSets, TLC

----------------------------------------------------------------------------
(* Bounds of the model *)

MaxIterBound == 2       \* max_iterations ranges over 0..MaxIterBound
MaxHistoryBound == 4    \* max_history ranges over 1..MaxHistoryBound
MaxChats == 2           \* chat calls per behaviour
MaxWork == 5            \* chat calls, backend calls and tool invocations per
                        \* behaviour
MaxCalls == 2           \* structured invocations per backend response

(* Program constants *)

AGENT_MAX_RESULT_LENGTH == 4000

----------------------------------------------------------------------------
(* Tokens *)

WS == " "
CH == "x"
LB == "{"
RB == "}"
CM == ","
KName == "\"name\":"
KParams == "\"parameters\":"
KArgs == "\"arguments\":"
KQuery == "\"query\":"
SSearch == "\"search\""
SGhost == "\"ghost\""
SX == "\"x\""
NullTok == "null"
ArrTok == "[1]"

KeyToks == {KName, KParams, KArgs, KQuery}
StrToks == {SSearch, SGhost, SX}

\* the dictionary key a key token denotes
KeyOf(tok) ==
    CASE tok = KName -> "name"
      [] tok = KParams -> "parameters"
      [] tok = KArgs -> "arguments"
      [] OTHER -> "query"

\* the key token json.dumps writes for a dictionary key
KeyTok(k) ==
    CASE k = "name" -> KName
      [] k = "parameters" -> KParams
      [] k = "arguments" -> KArgs
      [] OTHER -> KQuery

\* the characters between the quotes of a string literal
StrContent(tok) ==
    CASE tok = SSearch -> "search"
      [] tok = SGhost -> "ghost"
      [] OTHER -> CH

\* the string literal json.dumps writes for a Python str
StrTok(s) ==
    CASE s = "search" -> SSearch
      [] s = "ghost" -> SGhost
      [] OTHER -> SX

----------------------------------------------------------------------------
(* Python values: the results of json.loads and the argument payloads *)

PyNone == [t |-> "none"]
PyList == [t |-> "list"]
PyStr(s) == [t |-> "str", s |-> s]
PyDict(m) == [t |-> "dict", m |-> m]
PyText(toks) == [t |-> "text", toks |-> toks]

\* m is a sequence of [k, v] entries with distinct keys, in insertion order
HasKey(m, k) == \E i \in 1..Len(m) : m[i].k = k

GetKey(m, k) == m[CHOOSE i \in 1..Len(m) : m[i].k = k].v

\* d[k] = v on a Python dict: an existing key keeps its position
PutKey(m, k, v) ==
    IF HasKey(m, k)
    THEN [i \in 1..Len(m) |-> IF m[i].k = k THEN [k |-> k, v |-> v] ELSE m[i]]
    ELSE Append(m, [k |-> k, v |-> v])

----------------------------------------------------------------------------
(* str.strip, str.find, str.rfind *)

RECURSIVE LStrip(_)
LStrip(s) == IF s # <<>> /\ Head(s) = WS THEN LStrip(Tail(s)) ELSE s

RECURSIVE RStrip(_)
RStrip(s) ==
    IF s # <<>> /\ s[Len(s)] = WS THEN RStrip(SubSeq(s, 1, Len(s) - 1)) ELSE s

\* str.lstrip in the place of str.strip
StripLeft(s) == LStrip(s)

Strip(s) == RStrip(LStrip(s))

\* index of the first tok in s, 0 when there is none (Python's -1)
Find(s, tok) ==
    IF \E i \in 1..Len(s) : s[i] = tok
    THEN CHOOSE i \in 1..Len(s) : s[i] = tok /\ \A j \in 1..(i - 1) : s[j] # tok
    ELSE 0

\* index of the last tok in s, 0 when there is none
RFind(s, tok) ==
    IF \E i \in 1..Len(s) : s[i] = tok
    THEN CHOOSE i \in 1..Len(s) : s[i] = tok /\ \A j \in (i + 1)..Len(s) : s[j] # tok
    ELSE 0

----------------------------------------------------------------------------
(* json.loads and json.dumps *)

RECURSIVE SkipWs(_, _)
SkipWs(s, i) == IF i <= Len(s) /\ s[i] = WS THEN SkipWs(s, i + 1) ELSE i

ParseFail == [ok |-> FALSE, val |-> PyNone, next |-> 0]

RECURSIVE ParseValue(_, _)
RECURSIVE ParseMembers(_, _, _)

\* members of an object from position i on, m holding the entries read so far
ParseMembers(s, i, m) ==
    LET j == SkipWs(s, i) IN
    IF j > Len(s) \/ s[j] \notin KeyToks THEN ParseFail
    ELSE LET r == ParseValue(s, j + 1) IN
         IF ~r.ok THEN ParseFail
         ELSE LET n == SkipWs(s, r.next)
                  m2 == PutKey(m, KeyOf(s[j]), r.val)
              IN  IF n > Len(s) THEN ParseFail
                  ELSE IF s[n] = RB THEN [ok |-> TRUE, val |-> PyDict(m2), next |-> n + 1]
                  ELSE IF s[n] = CM THEN ParseMembers(s, n + 1, m2)
                  ELSE ParseFail

ParseValue(s, i) ==
    LET j == SkipWs(s, i) IN
    IF j > Len(s) THEN ParseFail
    ELSE IF s[j] \in StrToks THEN [ok |-> TRUE, val |-> PyStr(StrContent(s[j])), next |-> j + 1]
    ELSE IF s[j] = NullTok THEN [ok |-> TRUE, val |-> PyNone, next |-> j + 1]
    ELSE IF s[j] = ArrTok THEN [ok |-> TRUE, val |-> PyList, next |-> j + 1]
    ELSE IF s[j] = LB
         THEN LET n == SkipWs(s, j + 1) IN
              IF n <= Len(s) /\ s[n] = RB
              THEN [ok |-> TRUE, val |-> PyDict(<<>>), next |-> n + 1]
              ELSE ParseMembers(s, j + 1, <<>>)
    ELSE ParseFail

\* json.loads(s): ok is FALSE where Python raises JSONDecodeError
JsonLoads(s) ==
    LET r == ParseValue(s, 1) IN
    IF r.ok /\ SkipWs(s, r.next) > Len(s) THEN r ELSE ParseFail

RECURSIVE JsonDumps(_)
RECURSIVE DumpMembers(_, _)

DumpMembers(m, i) ==
    IF i > Len(m) THEN <<>>
    ELSE (IF i > 1 THEN <<CM, WS>> ELSE <<>>)
         \o <<KeyTok(m[i].k), WS>> \o JsonDumps(m[i].v) \o DumpMembers(m, i + 1)

\* json.dumps(v) with the default separators ", " and ": "
JsonDumps(v) ==
    CASE v.t = "dict" -> <<LB>> \o DumpMembers(v.m, 1) \o <<RB>>
      [] v.t = "str" -> <<StrTok(v.s)>>
      [] v.t = "list" -> <<ArrTok>>
      [] OTHER -> <<NullTok>>

----------------------------------------------------------------------------
(* Strings held by messages *)

None == [kind |-> "none"]
Text(toks) == [kind |-> "text", toks |-> toks]

\* a long string: the first len characters of the text named src, followed,
\* when total > 0, by "\n... [truncated, {total} chars total]"
Result(src, len) == [kind |-> "result", src |-> src, len |-> len, total |-> 0]

\* Python truthiness of an Optional[str]
Truthy(c) ==
    CASE c.kind = "none" -> FALSE
      [] c.kind = "text" -> c.toks # <<>>
      [] OTHER -> c.len > 0

SystemPrompt == <<"You are a helpful AI assistant with access to tools.">>
StoppedNotice == "\n\n[Stopped: reached maximum tool iterations]"
\* an empty text in the place of the rephrase message
NoMessage == <<>>

RephraseMessage ==
    <<"[Agent reached maximum iterations without producing a final answer. Please try rephrasing your question.]">>

----------------------------------------------------------------------------
(* ConversationHistory *)

IsSystem(m) == m.role = "system"
NotSystem(m) == m.role # "system"

\* s[:keep] in the place of s[-keep:]
SliceFirst(s, keep) ==
    IF keep >= Len(s) THEN s
    ELSE IF keep >= 0 THEN SubSeq(s, 1, keep)
    ELSE IF -keep >= Len(s) THEN <<>> ELSE SubSeq(s, 1, Len(s) + keep)

\* s[-keep:] for a Python list s
SliceLast(s, keep) ==
    IF keep = 0 THEN s
    ELSE IF keep > 0
         THEN IF keep >= Len(s) THEN s ELSE SubSeq(s, Len(s) - keep + 1, Len(s))
         ELSE IF -keep >= Len(s) THEN <<>> ELSE SubSeq(s, 1 - keep, Len(s))

\* the most recent max messages kept, system or not
TrimKeepLast(msgs, max) == SliceLast(msgs, max)

TrimIfNeeded(msgs, max) ==
    IF Len(msgs) <= max THEN msgs
    ELSE LET system == SelectSeq(msgs, IsSystem)
             non_system == SelectSeq(msgs, NotSystem)
             keep == max - Len(system)
         IN  system \o SliceLast(non_system, keep)

\* the record _trim_if_needed logs when the list appended to is over the cap
TrimLog(appended, max) ==
    IF Len(appended) <= max THEN <<>>
    ELSE <<[ev |-> "trimmed", count |-> Len(TrimIfNeeded(appended, max))]>>

\* ConversationHistory(system_prompt, max_messages)._messages
NewHistory(system_prompt) ==
    IF system_prompt # <<>>
    THEN <<[role |-> "system", content |-> Text(system_prompt)]>>
    ELSE <<>>

\* list(self._messages) in the place of deepcopy(self._messages): a new
\* list of the same message dicts
MessagesShallow(msgs) ==
    [held |-> TRUE, shares |-> "items", value |-> msgs, edited |-> FALSE]

\* ConversationHistory.messages: deepcopy(self._messages), a value that
\* shares no object with the history
Messages(msgs) ==
    [held |-> TRUE, shares |-> "nothing", value |-> msgs, edited |-> FALSE]

\* the user message added to a history emptied down to its system prompt
AddUserMessageAfterClear(msgs, max, content) ==
    TrimIfNeeded(Append(SelectSeq(msgs, IsSystem), [role |-> "user", content |-> content]), max)

AddUserMessage(msgs, max, content) ==
    TrimIfNeeded(Append(msgs, [role |-> "user", content |-> content]), max)

AddAssistantMessage(msgs, max, content) ==
    TrimIfNeeded(Append(msgs, [role |-> "assistant", content |-> content]), max)

AddAssistantToolCalls(msgs, max, message) ==
    TrimIfNeeded(Append(msgs, message), max)

AddToolResult(msgs, max, tool_call_id, name, content) ==
    TrimIfNeeded(Append(msgs, [role |-> "tool", tool_call_id |-> tool_call_id,
                               name |-> name, content |-> content]), max)

\* every message removed, the system prompt too
ClearAll(msgs) == <<>>

Clear(msgs) == SelectSeq(msgs, IsSystem)

IsAssistantWithContent(m) == m.role = "assistant" /\ Truthy(m.content)

\* the content, None or not, of the most recent assistant message
LastAssistantAnyContent(msgs) ==
    IF \E i \in 1..Len(msgs) : msgs[i].role = "assistant"
    THEN msgs[CHOOSE i \in 1..Len(msgs) :
                 /\ msgs[i].role = "assistant"
                 /\ \A j \in (i + 1)..Len(msgs) : msgs[j].role # "assistant"].content
    ELSE None

\* None when no assistant message has content
GetLastAssistantContent(msgs) ==
    IF \E i \in 1..Len(msgs) : IsAssistantWithContent(msgs[i])
    THEN msgs[CHOOSE i \in 1..Len(msgs) :
                 /\ IsAssistantWithContent(msgs[i])
                 /\ \A j \in (i + 1)..Len(msgs) : ~IsAssistantWithContent(msgs[j])].content
    ELSE None

----------------------------------------------------------------------------
(* Tool and ToolRegistry *)

\* len(name) of the tool names of the model
NameLen(name) == IF name = "search" THEN 6 ELSE IF name = "None" THEN 4 ELSE 5

\* a registration that moves a re-registered name to the end
RegisterAtEnd(reg, tool) ==
    LET IsOther(t) == t.name # tool.name IN Append(SelectSeq(reg, IsOther), tool)

\* ToolRegistry.register on the registry's entries, kept in insertion order
Register(reg, tool) ==
    IF \E i \in 1..Len(reg) : reg[i].name = tool.name
    THEN [i \in 1..Len(reg) |-> IF reg[i].name = tool.name THEN tool ELSE reg[i]]
    ELSE Append(reg, tool)

\* ToolRegistry.get on a str name: FALSE when dict.get returns None
Registered(reg, name) == \E i \in 1..Len(reg) : reg[i].name = name

RegistryGet(reg, name) == reg[CHOOSE i \in 1..Len(reg) : reg[i].name = name]

\* [t.name for t in registry.list_tools()]
ToolNames(reg) == [i \in 1..Len(reg) |-> reg[i].name]

\* to_openai_tools(), or None for an empty registry
ToOpenAITools(reg) ==
    IF Len(reg) > 0
    THEN [i \in 1..Len(reg) |-> [type |-> "function", function |-> [name |-> reg[i].name]]]
    ELSE <<>>

\* Tool.execute returning str(e) alone
ExecuteBareError(tool, out) ==
    CASE out.k = "str" -> Result(<<"out", tool.name>>, out.len)
      [] out.k = "obj" -> Result(<<"json", tool.name>>, out.len)
      [] OTHER -> Result(<<"str(e)">>, out.len)

\* Tool.execute once **kwargs is bound: out is what self.function does,
\* returning a str of out.len characters, returning another value that
\* json.dumps renders in out.len characters, or raising an exception whose
\* str() has out.len characters
Execute(tool, out) ==
    CASE out.k = "str" -> Result(<<"out", tool.name>>, out.len)
      [] out.k = "obj" -> Result(<<"json", tool.name>>, out.len)
      [] OTHER -> Result(<<"Error executing ", tool.name, ": ", "str(e)">>,
                         16 + NameLen(tool.name) + 2 + out.len)

RECURSIVE SumNameLen(_)
SumNameLen(names) ==
    IF names = <<>> THEN 0 ELSE NameLen(Head(names)) + 2 + SumNameLen(Tail(names))

\* len(repr(list of names))
ReprLen(names) ==
    IF names = <<>> THEN 2 ELSE 2 + SumNameLen(names) + 2 * (Len(names) - 1)

\* the unknown-tool result without the list of available tools
UnknownToolResultNoList(reg, name) ==
    Result(<<"Error: Unknown tool '", name, "'">>, 21 + NameLen(name) + 1)

\* the result synthesized for a tool name the registry does not hold
UnknownToolResult(reg, name) ==
    Result(<<"Error: Unknown tool '", name, "'. Available tools: ">> \o ToolNames(reg),
           21 + NameLen(name) + 20 + ReprLen(ToolNames(reg)))

\* the truncation applied from the cap on, a result of exactly
\* AGENT_MAX_RESULT_LENGTH characters included
TruncateAtCap(result) ==
    IF result.len >= AGENT_MAX_RESULT_LENGTH
    THEN [result EXCEPT !.len = AGENT_MAX_RESULT_LENGTH, !.total = result.len]
    ELSE result

\* result[:AGENT_MAX_RESULT_LENGTH] + "\n... [truncated, {len(result)} chars total]"
Truncate(result) ==
    IF result.len > AGENT_MAX_RESULT_LENGTH
    THEN [result EXCEPT !.len = AGENT_MAX_RESULT_LENGTH, !.total = result.len]
    ELSE result

----------------------------------------------------------------------------
(* Agent._parse_tool_calls *)

AllToks == <<WS, CH, LB, RB, CM, KName, KParams, KArgs, KQuery,
             SSearch, SGhost, SX, NullTok, ArrTok>>

TokCode(tok) == CHOOSE i \in 1..Len(AllToks) : AllToks[i] = tok

RECURSIVE HashFrom(_, _)
HashFrom(s, i) == IF i > Len(s) THEN 0 ELSE i * TokCode(s[i]) + HashFrom(s, i + 1)

\* abs(hash(json_str)) % 100000: hash is a function of the characters that is
\* fixed for the life of the process; a positional checksum stands for it
HashId(json_str) == HashFrom(json_str, 1) % 100000

\* f"call_{...}" and the ids a backend supplies
CallId(prefix, n) == [pre |-> prefix, n |-> n]

ToolCall(id, name, arguments) ==
    [id |-> id, type |-> "function",
     function |-> [name |-> name, arguments |-> arguments]]

\* the arguments field chosen before the parameters field
ToolArgsArgumentsFirst(d) ==
    IF HasKey(d, "arguments") THEN GetKey(d, "arguments") ELSE GetKey(d, "parameters")

\* parsed.get("parameters", parsed.get("arguments", {}))
ToolArgs(d) ==
    IF HasKey(d, "parameters") THEN GetKey(d, "parameters")
    ELSE IF HasKey(d, "arguments") THEN GetKey(d, "arguments")
    ELSE PyDict(<<>>)

\* message has the fields tool_calls (<<>> for None or an empty list) and
\* content (None or Text)

\* case 1 of _parse_tool_calls: the invocations of the native format
Tier1Calls(message) ==
    [i \in 1..Len(message.tool_calls) |->
        ToolCall(message.tool_calls[i].id, message.tool_calls[i].name,
                 message.tool_calls[i].arguments)]

\* a parsed object counts as a tool call whenever it has a name
IsToolCallFormatNameOnly(d) == HasKey(d, "name")

\* "name" in parsed and ("parameters" in parsed or "arguments" in parsed)
IsToolCallFormat(d) ==
    HasKey(d, "name") /\ (HasKey(d, "parameters") \/ HasKey(d, "arguments"))

\* case 2 of _parse_tool_calls: the JSON text fallback; <<>> where the code
\* falls through to "return None"
Tier2Calls(message) ==
    IF ~Truthy(message.content) THEN <<>>
    ELSE LET content == Strip(message.content.toks)
             json_start == Find(content, LB)
             json_end == RFind(content, RB)
         IN  IF ~(json_start # 0 /\ json_end # 0 /\ json_end > json_start) THEN <<>>
             ELSE LET json_str == SubSeq(content, json_start, json_end)
                      parsed == JsonLoads(json_str)
                  IN  IF ~parsed.ok THEN <<>>
                      ELSE LET d == parsed.val.m IN
                           IF ~IsToolCallFormat(d) THEN <<>>
                           ELSE LET tool_name == GetKey(d, "name")
                                    tool_args == ToolArgs(d)
                                    args_str == IF tool_args.t = "dict"
                                                THEN PyText(JsonDumps(tool_args))
                                                ELSE tool_args
                                IN  <<ToolCall(CallId("call_", HashId(json_str)),
                                               tool_name, args_str)>>

\* the text examined first, the native format only when it holds no tool call
ParseToolCallsTextFirst(message) ==
    IF Tier2Calls(message) # <<>> THEN Tier2Calls(message)
    ELSE IF message.tool_calls # <<>> THEN Tier1Calls(message) ELSE <<>>

\* the result is <<>> where the code returns None
ParseToolCalls(message) ==
    IF message.tool_calls # <<>> THEN Tier1Calls(message) ELSE Tier2Calls(message)

----------------------------------------------------------------------------
(* Argument decoding and tool lookup of the dispatch step *)

IsStr(v) == v.t \in {"text", "str"}

\* the characters of a Python str
TextOf(v) == IF v.t = "text" THEN v.toks ELSE <<v.s>>

\* args after "if isinstance(args, str): json.loads(args) ... except: args = {}"
DecodeArgs(raw) ==
    IF IsStr(raw)
    THEN LET r == JsonLoads(TextOf(raw)) IN IF r.ok THEN r.val ELSE PyDict(<<>>)
    ELSE raw

\* dict.get raises TypeError on an unhashable key
LookupRaises(tool_name) == tool_name.t \in {"list", "dict"}

ToolFound(reg, tool_name) == tool_name.t = "str" /\ Registered(reg, tool_name.s)

\* tool.execute(**args) raises TypeError before execute is entered unless
\* args is a mapping, and one without the key "self"
CallRaises(args) == args.t # "dict" \/ HasKey(args.m, "self")

\* str(tool_name) as the f-strings render it
NameText(tool_name) == IF tool_name.t = "str" THEN tool_name.s ELSE "None"

----------------------------------------------------------------------------
(* The agent: state *)

VARIABLES
    system_prompt,   \* the system_prompt argument of the constructor
    max_messages,    \* ConversationHistory._max_messages (max_history)
    max_iterations,  \* Agent.max_iterations
    messages,        \* ConversationHistory._messages
    registry,        \* ToolRegistry._tools, in insertion order
    pc,              \* "idle", or the position of the running chat call:
                     \* "loop" before a backend call, "dispatch" inside the
                     \* for loop over tool_calls
    iteration,       \* loop iterations started by the latest chat call
    openai_tools,    \* the schema exported when _run_loop starts
    sent,            \* the latest request given to the backend
    response,        \* what the latest backend call did
    tool_calls,      \* the invocations parsed from the latest response
    tc,              \* index in tool_calls of the next invocation
    handled,         \* indexes of tool_calls whose tool message was appended
    outcome,         \* how the latest chat call ended
    backendCalls,    \* backend calls made by the latest chat call
    toolResponses,   \* those of them that answered with tool invocations
    toolExecs,       \* tool executions made by the latest chat call
    events,          \* what the latest step told the observers on_tool_start,
                     \* on_tool_end and on_thinking, all three installed, and
                     \* the logger of ConversationHistory, in order
    nChats,          \* chat calls started
    work,            \* chat calls and backend calls made plus invocations
                     \* received
    snapshot         \* the value get_history() gave its caller last

config == <<system_prompt, max_messages, max_iterations>>

\* the frame of the latest chat call, with what the model records about it
frame == <<iteration, openai_tools, sent, response, tool_calls, tc, handled,
           outcome, backendCalls, toolResponses, toolExecs, events>>

vars == <<config, messages, registry, pc, frame, nChats, work, snapshot>>

NoOutcome == [kind |-> "none"]
Returned(value, via) == [kind |-> "returned", value |-> value, via |-> via]
Raised(exc, cause) == [kind |-> "raised", exc |-> exc, cause |-> cause]

NoSnapshot == [held |-> FALSE]

NoRequest == [messages |-> <<>>, tools |-> <<>>, after |-> <<>>]
NoResponse == [kind |-> "none"]

\* no chat call has run
NoFrame ==
    /\ iteration = 0
    /\ openai_tools = <<>>
    /\ sent = NoRequest
    /\ response = NoResponse
    /\ tool_calls = <<>>
    /\ tc = 0
    /\ handled = <<>>
    /\ outcome = NoOutcome
    /\ backendCalls = 0
    /\ toolResponses = 0
    /\ toolExecs = 0
    /\ events = <<>>

\* the frame of the latest chat call is forgotten
DropFrame ==
    /\ iteration' = 0
    /\ openai_tools' = <<>>
    /\ sent' = NoRequest
    /\ response' = NoResponse
    /\ tool_calls' = <<>>
    /\ tc' = 0
    /\ handled' = <<>>
    /\ outcome' = NoOutcome
    /\ backendCalls' = 0
    /\ toolResponses' = 0
    /\ toolExecs' = 0
    /\ events' = <<>>

----------------------------------------------------------------------------
(* Inputs *)

UserText == <<"hi">>

ObjText == <<LB, KQuery, SX, RB>>
ArrText == <<ArrTok>>

SearchTool == [name |-> "search", function |-> "search_fn"]

\* the tools a caller registers: three names, two functions for each
RegistryNames == {"search", "fetch", "clock"}
RegistryTools == [name : RegistryNames, function : {"search_fn", "other_fn"}]

\* a registered tool with a mapping payload, the same with an array
\* payload, and a tool that is never registered
BackendFunctions ==
    {[name |-> PyStr("search"), arguments |-> PyText(ObjText)],
     [name |-> PyStr("search"), arguments |-> PyText(ArrText)],
     [name |-> PyStr("ghost"), arguments |-> PyText(ObjText)]}

\* the invocation lists of a structured response, without their ids
BackendCallLists == UNION {[1..n -> BackendFunctions] : n \in 1..MaxCalls}

\* the backend numbers its invocations, giving each a fresh id: those of a
\* response that follows k backend calls and invocations are k + 1, k + 2, ...
WithIds(l, k) ==
    [i \in DOMAIN l |-> [id |-> CallId("id", k + i),
                         name |-> l[i].name, arguments |-> l[i].arguments]]

\* the texts a backend answers with
PlainText == <<WS, CH, WS>>
Tier2Text == <<CH, WS, LB, KName, SSearch, CM, KParams, LB, KQuery, SX, RB, RB, CH>>
Tier2Args == <<LB, KName, SGhost, CM, KArgs, LB, KQuery, SX, RB, RB>>
Tier2Both == <<LB, KName, SSearch, CM, KArgs, LB, RB, CM, KParams, LB, KQuery, SX, RB, RB>>
Tier2Null == <<LB, KName, SSearch, CM, KArgs, NullTok, RB>>
NoNameText == <<LB, KParams, LB, RB, RB>>
NameOnlyText == <<LB, KName, SSearch, RB>>
BrokenText == <<LB, CH, RB>>
BackwardText == <<RB, CH, LB>>

BackendTexts == {None, Text(<<>>), Text(<<WS>>), Text(PlainText), Text(Tier2Text),
                 Text(Tier2Args), Text(Tier2Both), Text(Tier2Null), Text(NoNameText),
                 Text(NameOnlyText), Text(BrokenText), Text(BackwardText)}

\* what client.chat.completions.create does: raise, return a response
\* without choices, or return a response whose first choice is message
Responses ==
    {[kind |-> "fail"], [kind |-> "nochoices"]}
    \cup {[kind |-> "message", message |-> [tool_calls |-> <<>>, content |-> c]] :
            c \in BackendTexts}
    \cup {[kind |-> "message", message |-> [tool_calls |-> l, content |-> c]] :
            l \in BackendCallLists, c \in {None, Text(Tier2Text)}}

\* what the caller of get_history does to the list it was given
Edits == {"append", "content", "nested"}

ForgedMessage == [role |-> "user", content |-> Text(<<"forged">>)]

HasToolCalls(m) == "tool_calls" \in DOMAIN m

CanEdit(edit, msgs) ==
    CASE edit = "append" -> TRUE
      [] edit = "content" -> msgs # <<>>
      [] OTHER -> \E i \in 1..Len(msgs) : HasToolCalls(msgs[i])

\* the list msgs after the edit
ApplyEdit(edit, msgs) ==
    CASE edit = "append" -> Append(msgs, ForgedMessage)
      [] edit = "content" -> [msgs EXCEPT ![1].content = Text(<<"forged">>)]
      [] OTHER -> LET i == CHOOSE k \in 1..Len(msgs) : HasToolCalls(msgs[k])
                  IN  [msgs EXCEPT ![i].tool_calls[1].id = CallId("forged", 0)]

\* an edit of a list shows in every list that is the same object, an edit
\* of a message in every list that holds the same message object
Reaches(shares, edit) ==
    shares = "all" \/ (shares = "items" /\ edit # "append")

\* what a function does when it is called: it returns a str one character
\* longer than the result cap, it raises with a message that makes the error
\* string of the tool "search" exactly as long as the cap, or it raises with
\* a message as long as the cap
ToolOutcomes ==
    {[k |-> "str", len |-> AGENT_MAX_RESULT_LENGTH + 1],
     [k |-> "raise", len |-> AGENT_MAX_RESULT_LENGTH - 24],
     [k |-> "raise", len |-> AGENT_MAX_RESULT_LENGTH]}

----------------------------------------------------------------------------
(* The agent: operations *)

\* Agent(tools=None, system_prompt, max_iterations, max_history)
Init ==
    /\ system_prompt \in {<<>>, SystemPrompt}
    /\ max_messages \in 1..MaxHistoryBound
    /\ max_iterations \in 0..MaxIterBound
    /\ messages = NewHistory(system_prompt)
    /\ registry = <<>>
    /\ pc = "idle"
    /\ NoFrame
    /\ nChats = 0
    /\ work = 0
    /\ snapshot = NoSnapshot

\* Agent.add_tool
AddTool(tool) ==
    /\ pc = "idle"
    /\ registry' = Register(registry, tool)
    /\ DropFrame
    /\ snapshot' = NoSnapshot
    /\ UNCHANGED <<config, messages, pc, nChats, work>>

\* Agent.reset
Reset ==
    /\ pc = "idle"
    /\ messages' = Clear(messages)
    /\ DropFrame
    /\ snapshot' = NoSnapshot
    /\ UNCHANGED <<config, registry, pc, nChats, work>>

\* every exception handled as MaxIterationsError is
ChatCatchAll(exc, msgs) ==
    LET last == GetLastAssistantContent(msgs) IN
    IF Truthy(last)
    THEN Returned(Text(last.toks \o <<StoppedNotice>>), "exhausted")
    ELSE Returned(Text(RephraseMessage), "exhausted")

\* the except clauses of Agent.chat: what the caller gets when _run_loop
\* raises exc with the history being msgs
ChatCatch(exc, msgs) ==
    IF exc = "MaxIterationsError"
    THEN LET last == GetLastAssistantContent(msgs) IN
         IF Truthy(last)
         THEN Returned(Text(last.toks \o <<StoppedNotice>>), "exhausted")
         ELSE Returned(Text(RephraseMessage), "exhausted")
    ELSE Raised("AgentError", exc)

\* the number of invocations _parse_tool_calls finds in what the backend did
Invocations(resp) ==
    IF resp.kind = "message"
    THEN Len(ParseToolCalls([resp.message EXCEPT !.tool_calls = WithIds(@, 0)]))
    ELSE 0

\* the calls of the observers
OnToolStart(tool_name, args) == [ev |-> "on_tool_start", name |-> tool_name, args |-> args]
OnToolEnd(tool_name, result) == [ev |-> "on_tool_end", name |-> tool_name, result |-> result]
OnThinking(text) == [ev |-> "on_thinking", text |-> text]

\* Agent.chat up to the first iteration of _run_loop
Chat(message) ==
    /\ pc = "idle"
    /\ nChats < MaxChats
    /\ work < MaxWork
    /\ work' = work + 1
    /\ messages' = AddUserMessage(messages, max_messages, Text(message))
    /\ openai_tools' = ToOpenAITools(registry)
    /\ iteration' = 0
    /\ sent' = NoRequest
    /\ response' = NoResponse
    /\ tool_calls' = <<>>
    /\ tc' = 0
    /\ handled' = <<>>
    /\ outcome' = NoOutcome
    /\ backendCalls' = 0
    /\ toolResponses' = 0
    /\ toolExecs' = 0
    /\ events' = TrimLog(Append(messages, [role |-> "user", content |-> Text(message)]),
                         max_messages)
    /\ nChats' = nChats + 1
    /\ pc' = "loop"
    /\ snapshot' = NoSnapshot
    /\ UNCHANGED <<config, registry>>

\* the text of the response kept in the message that records its invocations
AssistantMsgKeepsText(message, calls) ==
    [role |-> "assistant", content |-> message.content, tool_calls |-> calls]

\* assistant_msg: the content is cleared when the response uses tools
AssistantMsg(message, calls) ==
    [role |-> "assistant", content |-> None, tool_calls |-> calls]

\* the final answer recorded whatever it holds
RecordFinalAlways(msgs, max, final_content) ==
    AddAssistantMessage(msgs, max, Text(final_content))

\* if final_content: self.conversation.add_assistant_message(final_content)
RecordFinal(msgs, max, final_content) ==
    IF final_content # <<>>
    THEN AddAssistantMessage(msgs, max, Text(final_content))
    ELSE msgs

\* one iteration of _run_loop from its start to the end of the backend
\* call, the parse and, for a final answer, the return of chat; a backend
\* asked for more than the work of the behaviour allows fails
BackendCall(resp) ==
    /\ pc = "loop"
    /\ iteration < max_iterations
    /\ work + 1 + Invocations(resp) <= MaxWork \/ resp.kind = "fail"
    /\ work' = IF work + 1 + Invocations(resp) <= MaxWork
               THEN work + 1 + Invocations(resp)
               ELSE work
    /\ iteration' = iteration + 1
    /\ backendCalls' = backendCalls + 1
    /\ sent' = [messages |-> messages, tools |-> openai_tools, after |-> tool_calls]
    /\ IF resp.kind = "fail"
       THEN /\ response' = resp
            /\ outcome' = ChatCatch("CompletionError", messages)
            /\ pc' = "idle"
            /\ events' = <<>>
            /\ UNCHANGED <<messages, tool_calls, tc, handled, toolResponses>>
       ELSE IF resp.kind = "nochoices"
       THEN /\ response' = resp
            /\ outcome' = ChatCatch("IndexError", messages)
            /\ pc' = "idle"
            /\ events' = <<>>
            /\ UNCHANGED <<messages, tool_calls, tc, handled, toolResponses>>
       ELSE LET message == [resp.message EXCEPT !.tool_calls = WithIds(@, work)]
                calls == ParseToolCalls(message)
                final_content == IF Truthy(message.content) THEN message.content.toks ELSE <<>>
            IN  /\ response' = [kind |-> "message", message |-> message]
                /\ IF calls # <<>>
                   THEN /\ messages' = AddAssistantToolCalls(messages, max_messages,
                                                             AssistantMsg(message, calls))
                        /\ tool_calls' = calls
                        /\ tc' = 1
                        /\ handled' = <<>>
                        /\ toolResponses' = toolResponses + 1
                        /\ pc' = "dispatch"
                        /\ events' = TrimLog(Append(messages, AssistantMsg(message, calls)),
                                             max_messages)
                        /\ UNCHANGED outcome
                   ELSE /\ messages' = RecordFinal(messages, max_messages, final_content)
                        /\ tool_calls' = <<>>
                        /\ tc' = 0
                        /\ handled' = <<>>
                        /\ outcome' = Returned(Text(Strip(final_content)), "final")
                        /\ pc' = "idle"
                        /\ events' = IF final_content # <<>>
                                     THEN TrimLog(Append(messages,
                                                         [role |-> "assistant",
                                                          content |-> Text(final_content)]),
                                                  max_messages)
                                     ELSE <<>>
                        /\ UNCHANGED toolResponses
    /\ UNCHANGED <<config, registry, openai_tools, toolExecs, nChats, snapshot>>

\* one pass of the for loop over tool_calls: decode the arguments, look the
\* tool up, execute it or synthesize the unknown-tool result, truncate,
\* append the tool message
Dispatch(out) ==
    /\ pc = "dispatch"
    /\ LET call == tool_calls[tc]
           tool_name == call.function.name
           args == DecodeArgs(call.function.arguments)
           found == ToolFound(registry, tool_name)
       IN  IF LookupRaises(tool_name) \/ (found /\ CallRaises(args))
           THEN /\ outcome' = ChatCatch("TypeError", messages)
                /\ pc' = "idle"
                /\ events' = <<OnToolStart(tool_name, args)>>
                /\ UNCHANGED <<messages, tc, handled, toolExecs>>
           ELSE LET result == Truncate(IF found
                                       THEN Execute(RegistryGet(registry, tool_name.s), out)
                                       ELSE UnknownToolResult(registry, NameText(tool_name)))
                IN  /\ messages' = AddToolResult(messages, max_messages, call.id,
                                                 tool_name, result)
                    /\ toolExecs' = IF found THEN toolExecs + 1 ELSE toolExecs
                    /\ handled' = Append(handled, tc)
                    /\ tc' = tc + 1
                    /\ pc' = IF tc < Len(tool_calls) THEN "dispatch" ELSE "loop"
                    /\ events' = <<OnToolStart(tool_name, args), OnToolEnd(tool_name, result)>>
                                    \o TrimLog(Append(messages,
                                                      [role |-> "tool", tool_call_id |-> call.id,
                                                       name |-> tool_name, content |-> result]),
                                               max_messages)
                    /\ UNCHANGED outcome
    /\ UNCHANGED <<config, registry, iteration, openai_tools, sent, response,
                   tool_calls, backendCalls, toolResponses, nChats, work, snapshot>>

\* a loop that never gives up
ExhaustNever ==
    /\ FALSE
    /\ UNCHANGED vars

\* the for loop of _run_loop is over: MaxIterationsError, caught by chat
Exhaust ==
    /\ pc = "loop"
    /\ iteration >= max_iterations
    /\ outcome' = ChatCatch("MaxIterationsError", messages)
    /\ pc' = "idle"
    /\ events' = <<>>
    /\ UNCHANGED <<config, messages, registry, iteration, openai_tools, sent,
                   response, tool_calls, tc, handled, backendCalls, toolResponses,
                   toolExecs, nChats, work, snapshot>>

\* Agent.get_history: the caller is given self.conversation.messages; the
\* value an earlier call gave is let go of by the next operation
GetHistory ==
    /\ pc = "idle"
    /\ ~snapshot.held
    /\ snapshot' = Messages(messages)
    /\ DropFrame
    /\ UNCHANGED <<config, messages, registry, pc, nChats, work>>

\* the caller of get_history changes the value it was given: it adds a
\* message, rewrites the content of the first message, or rewrites the id
\* of an invocation recorded in a message; what the value shares with the
\* history changes in the history too
MutateSnapshot(edit) ==
    /\ pc = "idle"
    /\ snapshot.held
    /\ ~snapshot.edited
    /\ CanEdit(edit, snapshot.value)
    /\ snapshot' = [snapshot EXCEPT !.value = ApplyEdit(edit, @), !.edited = TRUE]
    /\ messages' = IF Reaches(snapshot.shares, edit)
                   THEN ApplyEdit(edit, messages)
                   ELSE messages
    /\ UNCHANGED <<config, registry, pc, frame, nChats, work>>

Next ==
    \/ AddTool(SearchTool)
    \/ Reset
    \/ Chat(UserText)
    \/ \E resp \in Responses : BackendCall(resp)
    \/ \E out \in ToolOutcomes : Dispatch(out)
    \/ Exhaust
    \/ GetHistory
    \/ \E edit \in Edits : MutateSnapshot(edit)

Spec == Init /\ [][Next]_vars

\* invocations with the payload {} or [1], of a registered tool or an
\* unknown one
EmptyObjText == <<LB, RB>>

LiveFunctions ==
    {[name |-> PyStr("search"), arguments |-> PyText(EmptyObjText)],
     [name |-> PyStr("search"), arguments |-> PyText(ArrText)],
     [name |-> PyStr("ghost"), arguments |-> PyText(EmptyObjText)]}

\* a text holding a tool call without parameters
LiveTier2Text == <<CH, WS, LB, KName, SSearch, CM, KParams, LB, RB, RB>>

\* the responses of every kind: a failure, no choices, a final answer
\* without and with text, a tool call in the text, and one to MaxCalls
\* structured invocations of one function
LiveResponses ==
    {[kind |-> "fail"], [kind |-> "nochoices"]}
    \cup {[kind |-> "message", message |-> [tool_calls |-> <<>>, content |-> c]] :
            c \in {None, Text(PlainText), Text(LiveTier2Text)}}
    \cup {[kind |-> "message",
           message |-> [tool_calls |-> [i \in 1..n |-> f], content |-> None]] :
            n \in 1..MaxCalls, f \in LiveFunctions}

\* a step of the running chat call
ChatStep ==
    \/ \E resp \in LiveResponses : BackendCall(resp)
    \/ \E out \in ToolOutcomes : Dispatch(out)
    \/ Exhaust

LiveNext ==
    \/ AddTool(SearchTool)
    \/ Reset
    \/ Chat(UserText)
    \/ ChatStep

\* the backend call, the tool executables and the observers return, so the
\* running chat call takes its next step
LiveSpec == Init /\ [][LiveNext]_vars /\ WF_vars(ChatStep)

\* the registry under registrations alone
RegistryNext == \E tool \in RegistryTools : AddTool(tool)

RegistrySpec == Init /\ [][RegistryNext]_vars

----------------------------------------------------------------------------
(* Properties *)

ChatEnded == pc = "idle" /\ outcome.kind # "none"

\* the invocation the dispatch step is about to handle
CurCall == tool_calls[tc]

LastOf(msgs) == msgs[Len(msgs)]

\* max_messages minus the number of system messages
Room == max_messages - (IF system_prompt # <<>> THEN 1 ELSE 0)

\* C1: a chat call makes at most max_iterations backend calls, and when
\* every one of its backend responses carried a tool invocation it ends on
\* the exhaustion path after exactly max_iterations backend calls.
C1_ExhaustsAtMaxIterations ==
    /\ backendCalls <= max_iterations
    /\ (ChatEnded /\ toolResponses = backendCalls)
          => /\ outcome.kind = "returned"
             /\ outcome.via = "exhausted"
             /\ backendCalls = max_iterations

\* the text holds an object with a name field and a parameters or arguments
\* field between its first "{" and its last "}"
HoldsToolCallObject(content) ==
    /\ content.kind = "text"
    /\ LET c == content.toks
           a == Find(c, LB)
           b == RFind(c, RB)
       IN  /\ a # 0
           /\ b > a
           /\ LET r == JsonLoads(SubSeq(c, a, b)) IN
              /\ r.ok
              /\ HasKey(r.val.m, "name")
              /\ HasKey(r.val.m, "parameters") \/ HasKey(r.val.m, "arguments")

TextToks(content) == IF content.kind = "text" THEN content.toks ELSE <<>>

\* s from its first to its last token that is not whitespace
WithoutSurroundingWs(s) ==
    LET solid == {i \in 1..Len(s) : s[i] # WS} IN
    IF solid = {} THEN <<>>
    ELSE SubSeq(s, CHOOSE i \in solid : \A j \in solid : i <= j,
                   CHOOSE i \in solid : \A j \in solid : j <= i)

FirstResponseIsPlain ==
    /\ backendCalls = 1
    /\ response.kind = "message"
    /\ response.message.tool_calls = <<>>
    /\ ~HoldsToolCallObject(response.message.content)

\* C2: when the first backend response of a chat call has no structured
\* invocation and no tool-call object in its text, chat returns the text
\* stripped of surrounding whitespace, after one backend call and no tool
\* execution.
C2_FinalAnswerShortCircuit ==
    FirstResponseIsPlain
        => /\ pc = "idle"
           /\ outcome = Returned(Text(WithoutSurroundingWs(TextToks(response.message.content))),
                               "final")
           /\ toolExecs = 0

C2_Witness ==
    /\ FirstResponseIsPlain
    /\ response.message.content = Text(PlainText)
    /\ outcome.kind = "returned"
    /\ outcome.value = Text(<<CH>>)

\* the for loop of _run_loop has run max_iterations times without a return
\* or a raise
LoopExhausted ==
    /\ ChatEnded
    /\ backendCalls = max_iterations
    /\ toolResponses = backendCalls
    /\ Len(handled) = Len(tool_calls)

AssistantTexts ==
    {i \in 1..Len(messages) :
        messages[i].role = "assistant" /\ messages[i].content.kind # "none"}

Emitters(i, id) ==
    {p \in (1..(i - 1)) \X (1..MaxWork) :
        /\ messages[p[1]].role = "assistant"
        /\ "tool_calls" \in DOMAIN messages[p[1]]
        /\ p[2] <= Len(messages[p[1]].tool_calls)
        /\ messages[p[1]].tool_calls[p[2]].id = id}

\* C4: every tool message's tool_call_id is the id of exactly one tool
\* invocation recorded in an assistant message before it in the history.
C4_RoundTripCorrelation ==
    \A i \in 1..Len(messages) :
        messages[i].role = "tool"
            => Cardinality(Emitters(i, messages[i].tool_call_id)) = 1

\* C5: a history created with a system message keeps it as its first
\* message and never holds more messages than the cap.
C5_TrimmingInvariant ==
    system_prompt # <<>>
        => /\ messages # <<>>
           /\ messages[1].role = "system"
           /\ Len(messages) <= max_messages

\* the dispatch step is about to execute a registered tool with a mapping
\* of arguments
ExecutesTool ==
    /\ pc = "dispatch"
    /\ ToolFound(registry, CurCall.function.name)
    /\ ~CallRaises(DecodeArgs(CurCall.function.arguments))

\* "Error executing {name}: {message}" for a message of n characters
ErrorString(name, n) ==
    Result(<<"Error executing ", name, ": ", "str(e)">>, 16 + NameLen(name) + 2 + n)

\* s when it has at most AGENT_MAX_RESULT_LENGTH characters, else its first
\* AGENT_MAX_RESULT_LENGTH characters and the suffix disclosing its length
Capped(s) ==
    IF s.len <= AGENT_MAX_RESULT_LENGTH THEN s
    ELSE [kind |-> "result", src |-> s.src, len |-> AGENT_MAX_RESULT_LENGTH,
          total |-> s.len]

\* the loop goes on after the invocation at hand: with the next invocation,
\* or with the next backend call after the last one
LoopGoesOn ==
    /\ outcome' = NoOutcome
    /\ tc' = tc + 1
    /\ pc' = IF tc < Len(tool_calls) THEN "dispatch" ELSE "loop"

\* the tool message the step records for the invocation at hand
Records(content) ==
    /\ messages' # <<>>
    /\ LastOf(messages') = [role |-> "tool", tool_call_id |-> CurCall.id,
                            name |-> CurCall.function.name, content |-> content]

\* C6 as claimed: when the executable of a registered tool raises, the
\* string "Error executing {name}: {message}" is recorded as the
\* invocation's tool message and the loop goes on.
C6_ErrorStringRecorded ==
    [][\A out \in ToolOutcomes :
          (ExecutesTool /\ out.k = "raise" /\ Dispatch(out))
              => /\ Records(ErrorString(CurCall.function.name.s, out.len))
                 /\ LoopGoesOn]_vars

\* C6 as amended: the string recorded is "Error executing {name}:
\* {message}" cut to the result cap, with the truncation suffix, when it is
\* longer than the cap.
C6_CappedErrorStringRecorded ==
    [][\A out \in ToolOutcomes :
          (ExecutesTool /\ out.k = "raise" /\ Dispatch(out))
              => /\ Records(Capped(ErrorString(CurCall.function.name.s, out.len)))
                 /\ LoopGoesOn]_vars

C6_Witness ==
    /\ pc = "dispatch"
    /\ tc = 2
    /\ messages # <<>>
    /\ LastOf(messages).role = "tool"
    /\ LastOf(messages).content.src[1] = "Error executing "
    /\ LastOf(messages).content.total > AGENT_MAX_RESULT_LENGTH

\* the dispatch step is about to handle an invocation naming no registered
\* tool
UnknownTool ==
    /\ pc = "dispatch"
    /\ ~LookupRaises(CurCall.function.name)
    /\ ~ToolFound(registry, CurCall.function.name)

\* the whole of content is there and x is a part of it
Mentions(content, x) ==
    /\ content.total = 0
    /\ \E i \in 1..Len(content.src) : content.src[i] = x

C8_BackendFailureIsFatal ==
    response.kind = "fail"
        => /\ pc = "idle"
           /\ outcome.kind = "raised"
           /\ backendCalls = iteration

C8_Witness ==
    /\ response.kind = "fail"
    /\ outcome.kind = "raised"
    /\ backendCalls = 2
    /\ toolExecs = 1

\* the request holds a tool message for every invocation of the response
\* that preceded it in the same chat call
SeesEveryResult ==
    \A i \in 1..Len(sent.after) :
        \E j \in 1..Len(sent.messages) :
            /\ sent.messages[j].role = "tool"
            /\ sent.messages[j].tool_call_id = sent.after[i].id

\* C9 as claimed: whatever the history cap, the backend call that follows a
\* response with invocations is sent a tool message for each of them.
C9_NextCallSeesEveryResult == SeesEveryResult

\* C9 as amended: so it is when the response has no more invocations than
\* the cap leaves room for beside the system message.
C9_NextCallSeesResultsThatFit == Len(sent.after) <= Room => SeesEveryResult

C9_Witness ==
    /\ Len(sent.after) = 2
    /\ Len(sent.after) <= Room
    /\ Len(sent.messages) = max_messages
    /\ SeesEveryResult
    /\ \A j \in 1..Len(sent.messages) : sent.messages[j].role # "user"

\* C10: the invocations of a response are handled one at a time in receipt
\* order, each exactly once, and the chat call goes on only once the last
\* one has its tool message.
C10_SequentialDispatch ==
    handled = [i \in 1..(IF pc = "dispatch" THEN tc - 1 ELSE Len(tool_calls)) |-> i]

\* the result of the invocation at hand before the truncation step
RawResult(out) ==
    IF ToolFound(registry, CurCall.function.name)
    THEN Execute(RegistryGet(registry, CurCall.function.name.s), out)
    ELSE UnknownToolResult(registry, NameText(CurCall.function.name))

\* C11: the content recorded for a tool result r is r itself when r has at
\* most AGENT_MAX_RESULT_LENGTH characters, and otherwise exactly its first
\* AGENT_MAX_RESULT_LENGTH characters followed by the suffix that discloses
\* len(r) and the truncation.
C11_TruncationAtCap ==
    [][\A out \in ToolOutcomes :
          ((ExecutesTool \/ UnknownTool) /\ Dispatch(out))
              => /\ messages' # <<>>
                 /\ LastOf(messages').role = "tool"
                 /\ LastOf(messages').content =
                       IF RawResult(out).len <= AGENT_MAX_RESULT_LENGTH
                       THEN RawResult(out)
                       ELSE [kind |-> "result", src |-> RawResult(out).src,
                             len |-> AGENT_MAX_RESULT_LENGTH,
                             total |-> RawResult(out).len]]_vars

C11_Witness ==
    /\ messages # <<>>
    /\ LastOf(messages).role = "tool"
    /\ LastOf(messages).content.src = <<"out", "search">>
    /\ LastOf(messages).content.len = AGENT_MAX_RESULT_LENGTH
    /\ LastOf(messages).content.total = AGENT_MAX_RESULT_LENGTH + 1

\* the object between the first "{" and the last "}" of a text that holds a
\* tool-call object
EmbeddedObject(content) ==
    JsonLoads(SubSeq(content.toks, Find(content.toks, LB), RFind(content.toks, RB))).val.m

\* resp has no structured invocation and a text holding a tool-call object
Tier2Response(resp) ==
    /\ resp.kind = "message"
    /\ resp.message.tool_calls = <<>>
    /\ HoldsToolCallObject(resp.message.content)

\* C12: for a response without structured invocations whose text holds an
\* object with a name field and a parameters or arguments field, the loop
\* goes on to dispatch exactly one invocation, of the tool called name, and
\* the arguments it decodes for it are the parameters mapping when
\* parameters is present and the arguments mapping otherwise.
C12_Tier2Fallback ==
    [][(pc = "loop" /\ backendCalls' = backendCalls + 1 /\ Tier2Response(response'))
          => LET obj == EmbeddedObject(response'.message.content)
                 chosen == IF HasKey(obj, "parameters")
                           THEN GetKey(obj, "parameters")
                           ELSE GetKey(obj, "arguments")
             IN  /\ pc' = "dispatch"
                 /\ tc' = 1
                 /\ Len(tool_calls') = 1
                 /\ tool_calls'[1].function.name = GetKey(obj, "name")
                 /\ chosen.t = "dict"
                       => DecodeArgs(tool_calls'[1].function.arguments) = chosen]_vars

C12_Witness ==
    /\ pc = "dispatch"
    /\ response.message.content = Text(Tier2Both)
    /\ Len(tool_calls) = 1
    /\ tool_calls[1].function.name = PyStr("search")
    /\ DecodeArgs(tool_calls[1].function.arguments)
          = PyDict(<<[k |-> "query", v |-> PyStr(CH)]>>)

\* C13: after reset the history is the system message alone when the
\* history was created with one and is empty otherwise, whatever turns came
\* before; the tool registry and the configuration are as they were.
C13_ResetKeepsOnlySystem ==
    [][Reset => /\ messages' = IF system_prompt # <<>>
                               THEN <<[role |-> "system", content |-> Text(system_prompt)]>>
                               ELSE <<>>
                /\ registry' = registry
                /\ config' = config]_vars

\* a chat call has run its tools and the history holds the system message
\* alone again
C13_Witness ==
    /\ nChats > 0
    /\ work > 1
    /\ registry # <<>>
    /\ system_prompt # <<>>
    /\ Len(messages) = 1
    /\ messages[1].role = "system"

\* C14: whatever the caller does to the value get_history gave it (adding
\* a message, editing a message, editing an invocation record nested in a
\* message), the history stays as it was, and with it every later snapshot
\* and backend request.
C14_SnapshotIsACopy ==
    [][\A edit \in Edits : MutateSnapshot(edit) => messages' = messages]_vars

\* the caller has rewritten an invocation id in its snapshot
C14_Witness ==
    /\ snapshot.held
    /\ snapshot.edited
    /\ snapshot.value # messages
    /\ \E i \in 1..Len(messages) :
          /\ HasToolCalls(messages[i])
          /\ snapshot.value[i].tool_calls[1].id = CallId("forged", 0)
          /\ messages[i].tool_calls[1].id # CallId("forged", 0)

\* the class of the exception the caller of chat catches
FailureKind(o) == o.exc

\* the faults of the loop that are not failures of the backend call
OtherFaults == {"IndexError", "TypeError"}

\* C15: a failure of the backend call reaches the caller of chat as a
\* failure whose kind is not the kind of the failure raised for any other
\* fault of the loop; exhaustion is not a failure at all.
C15_BackendFailureKindIsDistinct ==
    (ChatEnded /\ response.kind = "fail")
        => /\ outcome.kind = "raised"
           /\ \A e \in OtherFaults :
                 ChatCatch(e, messages).kind = "raised"
                     => FailureKind(ChatCatch(e, messages)) # FailureKind(outcome)

\* C16 as claimed: chat never returns an empty text.
C16_NeverEmptyResult ==
    ChatEnded => /\ outcome.kind \in {"returned", "raised"}
                 /\ outcome.kind = "returned" => outcome.value.toks # <<>>

OnlyWhitespace(s) == \A i \in 1..Len(s) : s[i] = WS

\* C16 as amended: chat returns a text or raises, and the text is empty
\* only as a final answer, when the response without invocations has a
\* text that is null, empty or whitespace alone; on the exhaustion path it
\* is never empty.
C16_EmptyOnlyAsBlankFinalAnswer ==
    ChatEnded => /\ outcome.kind \in {"returned", "raised"}
                 /\ outcome.kind = "returned"
                       => (outcome.value.toks = <<>>
                             <=> /\ outcome.via = "final"
                                 /\ OnlyWhitespace(TextToks(response.message.content)))

C16_Witness ==
    /\ ChatEnded
    /\ outcome = Returned(Text(<<>>), "final")
    /\ response.message.content = Text(<<WS>>)
    /\ LastOf(messages) = [role |-> "assistant", content |-> Text(<<WS>>)]

SystemMessages == {i \in 1..Len(messages) : messages[i].role = "system"}

\* C17 as claimed: at most one message has the role system and the first
\* message of a history that is not empty has it.
C17_SystemFirstAlways ==
    /\ Cardinality(SystemMessages) <= 1
    /\ messages # <<>> => messages[1].role = "system"

\* C17 as amended: a history created with a system prompt has exactly one
\* system message, its first; a history created without one has none.
C17_SystemFirstWhenCreatedWithOne ==
    SystemMessages = IF system_prompt # <<>> THEN {1} ELSE {}

\* older messages have been trimmed away behind the system message
C17_Witness ==
    /\ system_prompt # <<>>
    /\ max_messages > 1
    /\ Len(messages) = max_messages
    /\ messages[1].role = "system"
    /\ messages[2].role = "tool"

NamesOf(exported) == [i \in 1..Len(exported) |-> exported[i].function.name]

\* C18: get(name) gives the tool registered last under name and nothing
\* for a name never registered; list_tools() and to_openai_tools() have one
\* entry for each distinct name, in the order the names were first
\* registered.
C18_RegistryLastWriteWins ==
    [][\A tool \in RegistryTools :
          AddTool(tool)
              => /\ Registered(registry', tool.name)
                 /\ RegistryGet(registry', tool.name) = tool
                 /\ \A name \in RegistryNames \ {tool.name} :
                       /\ Registered(registry', name) = Registered(registry, name)
                       /\ Registered(registry, name)
                             => RegistryGet(registry', name) = RegistryGet(registry, name)
                 /\ ToolNames(registry') =
                       IF Registered(registry, tool.name)
                       THEN ToolNames(registry)
                       ELSE Append(ToolNames(registry), tool.name)
                 /\ \A i, j \in 1..Len(registry') :
                       registry'[i].name = registry'[j].name => i = j
                 /\ NamesOf(ToOpenAITools(registry')) = ToolNames(registry')]_vars

\* three names are registered and the first of them holds a function other
\* than the one of the last two
C18_Witness ==
    /\ ToolNames(registry) = <<"search", "fetch", "clock">>
    /\ registry[1].function = "other_fn"
    /\ registry[2].function = "search_fn"
    /\ registry[3].function = "search_fn"

\* C19: when a backend response that carries tool invocations carries text
\* as well, the on_thinking observer is told that text.
C19_ThinkingNotified ==
    (pc = "dispatch" /\ tc = 1 /\ Truthy(response.message.content))
        => \E i \in 1..Len(events) : events[i] = OnThinking(response.message.content)

\* no assistant message of msgs recorded an invocation with this id
Dangling(id, msgs) ==
    ~\E i \in 1..Len(msgs) :
        /\ HasToolCalls(msgs[i])
        /\ \E j \in 1..Len(msgs[i].tool_calls) : msgs[i].tool_calls[j].id = id

\* C20: add_tool_result with an id that no assistant message of the history
\* emitted is rejected, or appends the message and flags the violation; it
\* never appends in silence.
C20_DanglingResultFlagged ==
    [][\A out \in ToolOutcomes :
          (/\ ExecutesTool \/ UnknownTool
           /\ Dangling(CurCall.id, messages)
           /\ Dispatch(out))
              => \/ messages' = messages
                 \/ \E i \in 1..Len(events') : events'[i].ev = "dangling"]_vars

\* C21: every chat call ends, by returning or by raising, and the body of
\* its loop runs at most max_iterations times.
C21_ChatTerminates ==
    /\ [](iteration <= max_iterations /\ backendCalls = iteration)
    /\ (pc # "idle") ~> ChatEnded

\* a chat call has run the loop body max_iterations times, with tools, and
\* has ended
C21_Witness ==
    /\ ChatEnded
    /\ max_iterations = MaxIterBound
    /\ iteration = max_iterations
    /\ toolResponses = iteration
    /\ outcome.kind = "returned"

\* the step is a backend call, answered with response'
Answered == pc = "loop" /\ backendCalls' = backendCalls + 1

\* resp is a message with structured invocations
Tier1Response(resp) ==
    /\ resp.kind = "message"
    /\ resp.message.tool_calls # <<>>

\* C22: for a response with structured invocations the loop goes on to
\* dispatch exactly those, with the ids, names and argument payloads as the
\* backend gave them, whatever the text of the response holds; the text is
\* looked into only when there is no structured invocation.
C22_StructuredVerbatim ==
    [][(Answered /\ Tier1Response(response'))
          => LET given == response'.message.tool_calls IN
             /\ pc' = "dispatch"
             /\ tc' = 1
             /\ Len(tool_calls') = Len(given)
             /\ \A i \in 1..Len(given) :
                   /\ tool_calls'[i].id = given[i].id
                   /\ tool_calls'[i].function.name = given[i].name
                   /\ tool_calls'[i].function.arguments = given[i].arguments]_vars

\* two structured invocations beside a text that holds a tool call
C22_Witness ==
    /\ pc = "dispatch"
    /\ response.message.content = Text(Tier2Text)
    /\ Len(response.message.tool_calls) = 2
    /\ Len(tool_calls) = 2
    /\ tool_calls[1].function.name = PyStr("ghost")
    /\ tool_calls[2].id = response.message.tool_calls[2].id

\* the text from its first opening brace to its last closing brace
Braced(t) ==
    LET first == CHOOSE i \in DOMAIN t : t[i] = LB /\ \A j \in 1..(i - 1) : t[j] # LB
        last == CHOOSE i \in DOMAIN t : t[i] = RB /\ \A j \in (i + 1)..Len(t) : t[j] # RB
    IN  SubSeq(t, first, last)

\* no opening brace of the text comes before a closing brace
NoBraces(t) == ~\E i, j \in DOMAIN t : i < j /\ t[i] = LB /\ t[j] = RB

\* the text holds no tool call: no braces, or what they enclose is not JSON,
\* or the object has no name, or neither parameters nor arguments
NotAToolCall(t) ==
    \/ NoBraces(t)
    \/ ~JsonLoads(Braced(t)).ok
    \/ ~HasKey(JsonLoads(Braced(t)).val.m, "name")
    \/ /\ ~HasKey(JsonLoads(Braced(t)).val.m, "parameters")
       /\ ~HasKey(JsonLoads(Braced(t)).val.m, "arguments")

\* resp is a message without structured invocations whose text holds no
\* tool call
PlainResponse(resp) ==
    /\ resp.kind = "message"
    /\ resp.message.tool_calls = <<>>
    /\ resp.message.content # None
    /\ NotAToolCall(resp.message.content.toks)

\* C23: a response without structured invocations whose text holds no
\* tool call (no brace pair, unparsable, no name, or neither parameters nor
\* arguments) dispatches no tool and fails nothing: the text is the final
\* answer of the chat call.
C23_NoToolCallIsFinalAnswer ==
    [][(Answered /\ PlainResponse(response'))
          => /\ pc' = "idle"
             /\ tool_calls' = <<>>
             /\ toolExecs' = toolExecs
             /\ toolResponses' = toolResponses
             /\ outcome' = Returned(Text(Strip(response'.message.content.toks)), "final")
             /\ response'.message.content.toks # <<>>
                   => LastOf(messages') = [role |-> "assistant",
                                           content |-> response'.message.content]]_vars

\* a named object with neither parameters nor arguments was the final answer
C23_Witness ==
    /\ ChatEnded
    /\ response.kind = "message"
    /\ response.message.content = Text(NameOnlyText)
    /\ outcome = Returned(Text(NameOnlyText), "final")
    /\ toolExecs = 0
    /\ LastOf(messages).content = Text(NameOnlyText)

\* resp is a final response: a message without structured invocations whose
\* text is null or holds no tool call
FinalResponse(resp) ==
    /\ resp.kind = "message"
    /\ resp.message.tool_calls = <<>>
    /\ resp.message.content # None => NotAToolCall(resp.message.content.toks)

\* C24: a final response whose text is null or empty makes chat return the
\* empty string without raising and without appending a message; one whose
\* text is not empty makes chat append exactly one message, the assistant
\* message holding that text, which is the last message when chat returns.
C24_FinalAnswerRecorded ==
    [][(Answered /\ FinalResponse(response'))
          => LET content == response'.message.content IN
             /\ pc' = "idle"
             /\ outcome'.kind = "returned"
             /\ IF content = None \/ content = Text(<<>>)
                THEN /\ outcome'.value = Text(<<>>)
                     /\ messages' = messages
                ELSE /\ LastOf(messages') = [role |-> "assistant", content |-> content]
                     /\ Len(messages') <= Len(messages) + 1
                     /\ Len(messages) < max_messages
                           => messages' = Append(messages, [role |-> "assistant",
                                                            content |-> content])]_vars

\* a null text returned as the empty string, nothing appended after the
\* user message
C24_Witness ==
    /\ ChatEnded
    /\ response.kind = "message"
    /\ response.message = [tool_calls |-> <<>>, content |-> None]
    /\ outcome = Returned(Text(<<>>), "final")
    /\ LastOf(messages) = [role |-> "user", content |-> Text(UserText)]

\* the step appends a message to the history
Appending == messages' # messages /\ (pc # "idle" \/ pc' # "idle")

\* the last k messages of msgs, all of them when it has no more than k
MostRecent(msgs, k) ==
    IF k >= Len(msgs) THEN msgs ELSE SubSeq(msgs, Len(msgs) - k + 1, Len(msgs))

\* C25: an append that takes the history above the cap leaves the system
\* message, if there is one, followed by exactly the most recent non-system
\* messages that fit beside it under the cap, in their order.
C25_TrimKeepsMostRecent ==
    [][(Appending /\ Len(messages) + 1 > max_messages)
          => LET system == SelectSeq(messages, IsSystem)
                 kept == SelectSeq(messages', NotSystem)
                 keep == max_messages - Len(system)
             IN  /\ SelectSeq(messages', IsSystem) = system
                 /\ messages' = system \o kept
                 /\ Len(kept) = keep
                 /\ keep > 0
                       => kept = MostRecent(SelectSeq(messages, NotSystem)
                                              \o <<LastOf(messages')>>, keep)]_vars

\* the tool message of the invocation at hand holding result
ToolMessage(result) ==
    [role |-> "tool", tool_call_id |-> CurCall.id,
     name |-> CurCall.function.name, content |-> result]

\* C26: the dispatch of an invocation, of a known tool or an unknown one,
\* notifies on_tool_start with the name and the arguments, then on_tool_end
\* with the name and the result already truncated, then appends the tool
\* message holding that same result, each once, and goes on to the next
\* invocation whatever the observers did.
C26_DispatchEventOrder ==
    [][pc = "dispatch"
          => /\ Len(events') >= 2
             /\ events'[1] = OnToolStart(CurCall.function.name,
                                         DecodeArgs(CurCall.function.arguments))
             /\ events'[2].ev = "on_tool_end"
             /\ events'[2].name = CurCall.function.name
             /\ events'[2].result.len <= AGENT_MAX_RESULT_LENGTH
             /\ LastOf(messages') = ToolMessage(events'[2].result)
             /\ \A i \in 3..Len(events') : events'[i].ev = "trimmed"
             /\ handled' = Append(handled, tc)
             /\ tc' = tc + 1
             /\ pc' = (IF tc < Len(tool_calls) THEN "dispatch" ELSE "loop")
             /\ outcome' = outcome]_vars

\* C27: the dispatch of an invocation of a registered tool, whatever its
\* argument payload, records a result as the tool message of the invocation
\* and does not end the chat call.
C27_AnyPayloadYieldsResult ==
    [][(pc = "dispatch" /\ ToolFound(registry, CurCall.function.name))
          => /\ pc' # "idle"
             /\ outcome' = outcome
             /\ LastOf(messages').role = "tool"
             /\ LastOf(messages').tool_call_id = CurCall.id
             /\ LastOf(messages').content.kind = "result"]_vars

\* the invocation j recorded in message i has a tool message with its id
\* later in the history
Answers(i, j) ==
    \E k \in (i + 1)..Len(messages) :
        /\ messages[k].role = "tool"
        /\ messages[k].tool_call_id = messages[i].tool_calls[j].id

\* C28: when a chat call has ended, by returning or by raising, every tool
\* invocation recorded in an assistant message of the history has a tool
\* message carrying its id later in the history.
C28_NoPartialHistory ==
    ChatEnded
        => \A i \in 1..Len(messages) :
               HasToolCalls(messages[i])
                   => \A j \in 1..Len(messages[i].tool_calls) : Answers(i, j)

\* the step ends the running chat call by raising
Raising == pc # "idle" /\ outcome'.kind = "raised"

\* the step starts a chat call right after one that raised
ChatAfterRaise == pc = "idle" /\ outcome.kind = "raised" /\ nChats' = nChats + 1

UserMessage == [role |-> "user", content |-> Text(UserText)]

\* C29 as claimed: a chat call that raises leaves the history with the user
\* message and all it appended, and the next chat call sends the backend
\* that whole history followed by the new user message.
C29_FailedCallMessagesResent ==
    [][/\ Raising => /\ messages' = messages
                     /\ \E i \in 1..Len(messages') : messages'[i] = UserMessage
       /\ ChatAfterRaise => messages' = Append(messages, UserMessage)
       /\ Answered => sent'.messages = messages]_vars

\* C29 as amended: a raise leaves the history as it was just before it, and
\* when that history and the new user message fit in the cap the next chat
\* call sends the backend the whole of it followed by the new user message.
C29_FailedCallMessagesResentWhenTheyFit ==
    [][/\ Raising => messages' = messages
       /\ (ChatAfterRaise /\ Len(messages) < max_messages)
             => messages' = Append(messages, UserMessage)
       /\ Answered => sent'.messages = messages]_vars

\* the first chat call raised at the second of two invocations; the backend
\* call of the second chat call was sent the user message, the invocations,
\* the one tool message and the new user message
C29_Witness ==
    /\ nChats = 2
    /\ backendCalls = 1
    /\ Len(sent.messages) = 4
    /\ sent.messages[1] = UserMessage
    /\ HasToolCalls(sent.messages[2])
    /\ Len(sent.messages[2].tool_calls) = 2
    /\ sent.messages[3].role = "tool"
    /\ sent.messages[3].tool_call_id = sent.messages[2].tool_calls[1].id
    /\ sent.messages[4] = UserMessage

\* the step is the end of the loop of a chat call that used up its iterations
Exhausting == pc = "loop" /\ iteration >= max_iterations /\ pc' = "idle"

\* the positions of the assistant messages with a text
TextTurns == {i \in 1..Len(messages) : IsAssistantWithContent(messages[i])}

\* the positions of the user messages; the last one is the running call's
UserTurns == {i \in 1..Len(messages) : messages[i].role = "user"}

\* message i was recorded by a chat call before the running one
RecordedEarlier(i) == \E u \in UserTurns : i < u

\* C30: on the exhaustion path the text returned before the notice is that
\* of an assistant message recorded by an earlier chat call, the assistant
\* messages of the exhausted call having no content; with no assistant text
\* in the history the call returns the fixed rephrase message.
C30_ExhaustionReturnsEarlierText ==
    [][Exhausting
          => /\ \A i \in TextTurns : RecordedEarlier(i)
             /\ IF TextTurns = {}
                THEN outcome' = Returned(Text(RephraseMessage), "exhausted")
                ELSE \E i \in TextTurns :
                        /\ \A j \in TextTurns : j <= i
                        /\ outcome' = Returned(Text(messages[i].content.toks
                                                      \o <<StoppedNotice>>),
                                               "exhausted")]_vars

\* the second chat call exhausted after a response with invocations and
\* returned the final answer of the first one with the notice
C30_Witness ==
    /\ ChatEnded
    /\ nChats = 2
    /\ toolResponses >= 1
    /\ outcome = Returned(Text(PlainText \o <<StoppedNotice>>), "exhausted")
    /\ HasToolCalls(LastOf(messages)) \/ LastOf(messages).role = "tool"

====
